---- MODULE Spec2Model ----
(***************************************************************************)
(* Model of zipper/helper/requests.go: one HttpQuery (a dispatcher for one *)
(* backend group) shared by concurrent DoQuery calls.  Each call runs in   *)
(* its own goroutine with its own context; the calls share the dispatcher's *)
(* selection counter and its limiter.                                      *)
(*                                                                         *)
(* The limiter (package limiter) and the error aggregate (package errors)  *)
(* are not part of the modelled source file; they are modelled from their  *)
(* documented contract.                                                    *)
(*                                                                         *)
(* A call is a sequence of steps: DoQuery (entry), then per try doRequest  *)
(* (pickServer, url.Parse), Enter, Do (the round trip ends), Leave,        *)
(* classify (status, body) and check (Add, ctx.Err(), loop).  Steps of     *)
(* different calls interleave; Cancel ends the context of a call at any    *)
(* point before it returns.                                                *)
(*                                                                         *)
(* The counter is a uint64; the model never reaches its wrap-around.       *)
(***************************************************************************)
EXTENDS Integers, Sequences, FiniteSets, TLC

(* ---- bounds of the model ---- *)
NumCalls == 2
MaxServers == 3
MaxTriesCfg == 2
MaxCap == 1
FairMaxServers == 2

(* ---- values ---- *)
Calls == 1..NumCalls
AllServers == [i \in 1..MaxServers |-> <<"s", i>>]
GroupNames == {<<"g", 0>>, <<"s", 1>>}
GoodURI == "/render"
BadURI == "/%zz"
URIs == {GoodURI, BadURI}
StatusOK == 200
StatusNotFound == 404
Statuses == {200, 404, 500, 503}
Nil == [nil |-> TRUE]

(* errors: kind, plus what a FetchFailed error carries (group, code), plus
   the call and try that produced the value *)
Error(kind, group, code, p, t) ==
    [kind |-> kind, group |-> group, code |-> code, call |-> p, try |-> t]
NoGroup == <<"", 0>>
\* the local variable server of doRequest outside a try: the empty string
NoServer == <<"", 0>>

VARIABLES
    groupName, servers, maxTries, limiter, \* HttpQuery fields set by NewHttpQuery
    counter,                               \* HttpQuery.counter
    held, unmatched,                       \* limiter slot accounting, per key
    pc, ctxDone, uri,                      \* per call: position, ctx.Err() # nil, uri argument
    try, effTries, e, ret,                 \* DoQuery locals and returned pair
    server, resp, err, res,                \* doRequest locals and returned pair
    picks,                                 \* per call: the record of each try made
    callers, world,                        \* the environment: who calls, how backends may answer
    cancelAt                               \* per call: where the call was when its context ended

cfg == <<groupName, servers, maxTries, limiter>>
lim == <<held, unmatched>>
dq == <<try, effTries, e, ret>>
dr == <<server, resp, err, res>>
envv == <<callers, world>>
vars == <<cfg, counter, lim, pc, ctxDone, uri, dq, dr, picks, envv, cancelAt>>

Keys == GroupNames \cup {AllServers[i] : i \in 1..MaxServers}

(* ---- NewHttpQuery ---- *)
Limiters ==
    {[bounded |-> FALSE, cap |-> 0]} \cup {[bounded |-> TRUE, cap |-> c] : c \in 1..MaxCap}

NewHttpQuery ==
    /\ groupName \in GroupNames
    /\ servers \in {SubSeq(AllServers, 1, n) : n \in 1..MaxServers}
    /\ maxTries \in 0..MaxTriesCfg
    /\ limiter \in Limiters
    /\ counter = 0

(* ---- the environment ---- *)
\* a world says how a round trip may end while the context is live: the
\* statuses a backend may answer, whether the transport may fail, whether
\* reading a body may fail
World(st, tr, rd) == [statuses |-> st, transport |-> tr, read |-> rd]
AnyWorld == World(Statuses, TRUE, TRUE)
UniformWorlds == {World({StatusOK, StatusNotFound}, FALSE, FALSE)}
\* either one caller and backends that answer in any way from try to try, or
\* concurrent callers and backends with one way of failing
Environment ==
    \/ callers = {1} /\ world = AnyWorld
    \/ callers = Calls /\ world \in UniformWorlds

Init ==
    /\ NewHttpQuery
    /\ Environment
    /\ held = [k \in Keys |-> 0]
    /\ unmatched = {}
    /\ pc = [p \in Calls |-> "idle"]
    /\ ctxDone = [p \in Calls |-> FALSE]
    /\ uri = [p \in Calls |-> GoodURI]
    /\ try = [p \in Calls |-> 0]
    /\ effTries = [p \in Calls |-> 0]
    /\ e = [p \in Calls |-> <<>>]
    /\ ret = [p \in Calls |-> Nil]
    /\ server = [p \in Calls |-> NoServer]
    /\ resp = [p \in Calls |-> Nil]
    /\ err = [p \in Calls |-> Nil]
    /\ res = [p \in Calls |-> Nil]
    /\ picks = [p \in Calls |-> <<>>]
    /\ cancelAt = [p \in Calls |-> Nil]

(* ---- package limiter: Enter / Leave on a key ---- *)
\* Enter can return nil: the no-op limiter always admits, the bounded one
\* admits while a slot of the key is free.
EnterAdmits(k) == ~limiter.bounded \/ held[k] < limiter.cap
\* Enter can return its error: only the bounded limiter waits, and the wait
\* ends with an error once the context is done.
EnterFails(p) == limiter.bounded /\ ctxDone[p]
EnterAcquire(k) ==
    /\ held' = IF limiter.bounded THEN [held EXCEPT ![k] = @ + 1] ELSE held
    /\ UNCHANGED unmatched
\* Leave frees one slot of the key; a Leave on a key that holds no slot is
\* recorded as unmatched.
LimiterLeave(k) ==
    IF ~limiter.bounded THEN UNCHANGED lim
    ELSE IF held[k] > 0
         THEN held' = [held EXCEPT ![k] = @ - 1] /\ UNCHANGED unmatched
         ELSE unmatched' = unmatched \cup {k} /\ UNCHANGED held

(* ---- package errors / types ---- *)
Add(ee, x) == Append(ee, x)
ErrMaxTriesExceeded(p) == Error("MaxTriesExceeded", NoGroup, 0, p, 0)
ErrNotFound(p, t) == Error("NotFound", NoGroup, 0, p, t)
ErrFailedToFetch(g, code, p, t) == Error("FailedToFetch", g, code, p, t)
ErrTimeout(p, t) == Error("LimiterTimeout", NoGroup, 0, p, t)
ErrContext(p, t) == Error("ContextDone", NoGroup, 0, p, t)
ErrTransport(p, t) == Error("Transport", NoGroup, 0, p, t)
ErrReadBody(p, t) == Error("ReadBody", NoGroup, 0, p, t)
ErrParse(p, t) == Error("URLParse", NoGroup, 0, p, t)

(* ---- pickServer ---- *)
\* variant: the index is taken modulo one less than the number of replicas
pickServer_skipLast(cnt, srvs) ==
    IF Len(srvs) = 1
    THEN [counter |-> cnt, srv |-> srvs[1]]
    ELSE LET c1 == cnt + 1
             idx == c1 % (Len(srvs) - 1)
         IN [counter |-> c1, srv |-> srvs[idx + 1]]

\* variant: the index is taken from the counter before the increment
pickServer_preIncrement(cnt, srvs) ==
    IF Len(srvs) = 1
    THEN [counter |-> cnt, srv |-> srvs[1]]
    ELSE LET c1 == cnt + 1
             idx == cnt % Len(srvs)
         IN [counter |-> c1, srv |-> srvs[idx + 1]]

\* variant: the index advances by two for each call
pickServer_double(cnt, srvs) ==
    IF Len(srvs) = 1
    THEN [counter |-> cnt, srv |-> srvs[1]]
    ELSE LET c1 == cnt + 1
             idx == (2 * c1) % Len(srvs)
         IN [counter |-> c1, srv |-> srvs[idx + 1]]

\* variant: no fast path, a single replica goes through the counter too
pickServer_noFastPath(cnt, srvs) ==
    LET c1 == cnt + 1
        idx == c1 % Len(srvs)
    IN [counter |-> c1, srv |-> srvs[idx + 1]]

\* variant: the incremented value is used but not stored
pickServer_noStore(cnt, srvs) ==
    IF Len(srvs) = 1
    THEN [counter |-> cnt, srv |-> srvs[1]]
    ELSE LET c1 == cnt + 1
             idx == c1 % Len(srvs)
         IN [counter |-> cnt, srv |-> srvs[idx + 1]]

pickServer(cnt, srvs) ==
    IF Len(srvs) = 1
    THEN [counter |-> cnt, srv |-> srvs[1]]
    ELSE LET c1 == cnt + 1
             idx == c1 % Len(srvs)
         IN [counter |-> c1, srv |-> srvs[idx + 1]]

urlParseOK(srv, u) == u # BadURI

(* ---- DoQuery: the effective number of tries ---- *)
\* variant: the configured count is used as it is
EffectiveMaxTries_configured(m, n) == m

EffectiveMaxTries(m, n) == IF n > m THEN n ELSE m

\* the number of the try a call is in (1-based)
TryNo(p) == try[p] + 1

(* ---- DoQuery: the loop head and the exit of the loop, lines 141, 154-155 ---- *)
\* the pointer DoQuery returns as its second result
Ref(ee) == [errors |-> ee]
\* with the loop variable at t and the aggregate ee: start try t+1, or leave
\* the loop, add the sentinel and return
\* variant: the loop is left without adding the sentinel
Loop_noSentinel(p, t, mt, ee) ==
    IF t < mt
    THEN [pc |-> "doRequest", e |-> ee, try |-> t, ret |-> Nil]
    ELSE [pc |-> "returned", e |-> ee, try |-> t, ret |-> [res |-> Nil, errs |-> Ref(ee)]]

\* variant: the context is examined at the loop head, before each try
Loop_ctxAtHead(p, t, mt, ee) ==
    IF ctxDone[p]
    THEN [pc |-> "returned", e |-> ee, try |-> t, ret |-> [res |-> Nil, errs |-> Ref(ee)]]
    ELSE IF t < mt
    THEN [pc |-> "doRequest", e |-> ee, try |-> t, ret |-> Nil]
    ELSE LET e2 == Add(ee, ErrMaxTriesExceeded(p)) IN
         [pc |-> "returned", e |-> e2, try |-> t, ret |-> [res |-> Nil, errs |-> Ref(e2)]]

Loop(p, t, mt, ee) ==
    IF t < mt
    THEN [pc |-> "doRequest", e |-> ee, try |-> t, ret |-> Nil]
    ELSE LET e2 == Add(ee, ErrMaxTriesExceeded(p)) IN
         [pc |-> "returned", e |-> e2, try |-> t, ret |-> [res |-> Nil, errs |-> Ref(e2)]]

(* ---- DoQuery entry: lines 134-141 ---- *)
DoQuery(p) ==
    /\ pc[p] = "idle"
    /\ p \in callers
    /\ \E u \in URIs : uri' = [uri EXCEPT ![p] = u]
    /\ LET mt == EffectiveMaxTries(maxTries, Len(servers))
           st == Loop(p, 0, mt, <<>>)
       IN /\ effTries' = [effTries EXCEPT ![p] = mt]
          /\ try' = [try EXCEPT ![p] = st.try]
          /\ e' = [e EXCEPT ![p] = st.e]
          /\ pc' = [pc EXCEPT ![p] = st.pc]
          /\ ret' = [ret EXCEPT ![p] = st.ret]
    /\ UNCHANGED <<cfg, counter, lim, ctxDone, dr, picks, envv, cancelAt>>

(* ---- the record of a try: the replica picked and the counter value seen,
   how Enter ended (not called, admitted, failed), what the round trip
   returned (Nil until it has), whether Leave was called and how ReadAll
   ended (not called, ok, failed) ---- *)
NewTry(srv, cnt) ==
    [srv |-> srv, counter |-> cnt, enter |-> "none", reply |-> Nil,
     left |-> FALSE, read |-> "none"]
\* what client.Do returned: a response with a status and no error, or an error
Reply(st, er) == [status |-> st, err |-> er]
\* the record of the try in progress with one field changed
Mark(p, f, v) == [picks EXCEPT ![p][Len(picks[p])] = [@ EXCEPT ![f] = v]]

(* ---- doRequest: pickServer and url.Parse, lines 69-74 ---- *)
doRequest(p) ==
    /\ pc[p] = "doRequest"
    /\ LET pk == pickServer(counter, servers) IN
        /\ counter' = pk.counter
        /\ server' = [server EXCEPT ![p] = pk.srv]
        /\ picks' = [picks EXCEPT ![p] = Append(@, NewTry(pk.srv, pk.counter))]
        /\ IF urlParseOK(pk.srv, uri[p])
           THEN /\ pc' = [pc EXCEPT ![p] = "Enter"]
                /\ err' = [err EXCEPT ![p] = Nil]
           ELSE /\ pc' = [pc EXCEPT ![p] = "check"]
                /\ err' = [err EXCEPT ![p] = ErrParse(p, TryNo(p))]
    /\ res' = [res EXCEPT ![p] = Nil]
    /\ resp' = [resp EXCEPT ![p] = Nil]
    /\ UNCHANGED <<cfg, lim, ctxDone, uri, dq, envv, cancelAt>>

(* ---- doRequest: c.limiter.Enter(ctx, c.groupName), lines 92-97 ---- *)
\* variant: the error of Enter is not looked at
AfterEnter_ignoreErr(er) == "Do"

\* variant: Leave is called when Enter returned an error
AfterEnter_leave(er) == IF er # Nil THEN "Leave" ELSE "Do"

\* variant: Enter is called again when it returned an error
AfterEnter_retry(er) == IF er # Nil THEN "Enter" ELSE "Do"

AfterEnter(er) == IF er # Nil THEN "check" ELSE "Do"

Enter(p) ==
    /\ pc[p] = "Enter"
    /\ \/ /\ EnterAdmits(groupName)
          /\ EnterAcquire(groupName)
          /\ err' = [err EXCEPT ![p] = Nil]
          /\ pc' = [pc EXCEPT ![p] = AfterEnter(Nil)]
          /\ picks' = Mark(p, "enter", "admitted")
       \/ /\ EnterFails(p)
          /\ UNCHANGED lim
          /\ err' = [err EXCEPT ![p] = ErrTimeout(p, TryNo(p))]
          /\ pc' = [pc EXCEPT ![p] = AfterEnter(ErrTimeout(p, TryNo(p)))]
          /\ picks' = Mark(p, "enter", "failed")
    /\ UNCHANGED <<cfg, counter, ctxDone, uri, dq, server, resp, res, envv, cancelAt>>

(* ---- doRequest: c.client.Do(req.WithContext(ctx)), line 99 ---- *)
\* the round trip ends: with the context's error when the context is done,
\* else with a transport error or a response of the contacted replica
Do(p) ==
    /\ pc[p] = "Do"
    /\ IF ctxDone[p]
       THEN /\ err' = [err EXCEPT ![p] = ErrContext(p, TryNo(p))]
            /\ UNCHANGED resp
       ELSE \/ /\ world.transport
               /\ err' = [err EXCEPT ![p] = ErrTransport(p, TryNo(p))]
               /\ UNCHANGED resp
            \/ \E s \in world.statuses :
               /\ resp' = [resp EXCEPT ![p] = [StatusCode |-> s, Body |-> <<"body", server[p]>>]]
               /\ UNCHANGED err
    /\ pc' = [pc EXCEPT ![p] = "Leave"]
    /\ picks' = Mark(p, "reply", IF err'[p] # Nil THEN Reply(0, err'[p])
                                 ELSE Reply(resp'[p].StatusCode, Nil))
    /\ UNCHANGED <<cfg, counter, lim, ctxDone, uri, dq, server, res, envv, cancelAt>>

(* ---- doRequest: c.limiter.Leave(ctx, server), line 100 ---- *)
LeaveKey(p) == server[p]

Leave(p) ==
    /\ pc[p] = "Leave"
    /\ LimiterLeave(LeaveKey(p))
    /\ pc' = [pc EXCEPT ![p] = "classify"]
    /\ picks' = Mark(p, "left", TRUE)
    /\ UNCHANGED <<cfg, counter, ctxDone, uri, dq, dr, envv, cancelAt>>

(* ---- doRequest: classification of the outcome, lines 101-131 ---- *)
\* the pair doRequest returns, given whether ReadAll succeeds
\* variant: a 404 is classified like any other status that is not 200
Outcome_no404(p, readOK) ==
    IF err[p] # Nil THEN [res |-> Nil, err |-> err[p]]
    ELSE IF resp[p].StatusCode # StatusOK
         THEN [res |-> Nil, err |-> ErrFailedToFetch(groupName, resp[p].StatusCode, p, TryNo(p))]
    ELSE IF ~readOK
         THEN [res |-> Nil, err |-> ErrReadBody(p, TryNo(p))]
    ELSE [res |-> [Server |-> server[p], Response |-> resp[p].Body], err |-> Nil]

\* variant: the response names the first replica of the list
Outcome_firstServer(p, readOK) ==
    IF err[p] # Nil THEN [res |-> Nil, err |-> err[p]]
    ELSE IF resp[p].StatusCode = StatusNotFound
         THEN [res |-> Nil, err |-> ErrNotFound(p, TryNo(p))]
    ELSE IF resp[p].StatusCode # StatusOK
         THEN [res |-> Nil, err |-> ErrFailedToFetch(groupName, resp[p].StatusCode, p, TryNo(p))]
    ELSE IF ~readOK
         THEN [res |-> Nil, err |-> ErrReadBody(p, TryNo(p))]
    ELSE [res |-> [Server |-> servers[1], Response |-> resp[p].Body], err |-> Nil]

Outcome(p, readOK) ==
    IF err[p] # Nil THEN [res |-> Nil, err |-> err[p]]
    ELSE IF resp[p].StatusCode = StatusNotFound
         THEN [res |-> Nil, err |-> ErrNotFound(p, TryNo(p))]
    ELSE IF resp[p].StatusCode # StatusOK
         THEN [res |-> Nil, err |-> ErrFailedToFetch(groupName, resp[p].StatusCode, p, TryNo(p))]
    ELSE IF ~readOK
         THEN [res |-> Nil, err |-> ErrReadBody(p, TryNo(p))]
    ELSE [res |-> [Server |-> server[p], Response |-> resp[p].Body], err |-> Nil]

\* ioutil.ReadAll (line 123) is reached: a response came and its status is 200
ReadsBody(p) == err[p] = Nil /\ resp[p].StatusCode = StatusOK

classify(p) ==
    /\ pc[p] = "classify"
    /\ \E readOK \in {TRUE, ~world.read} :
        /\ res' = [res EXCEPT ![p] = Outcome(p, readOK).res]
        /\ err' = [err EXCEPT ![p] = Outcome(p, readOK).err]
        /\ picks' = IF ReadsBody(p)
                    THEN Mark(p, "read", IF readOK THEN "ok" ELSE "failed")
                    ELSE picks
    /\ resp' = [resp EXCEPT ![p] = Nil]
    /\ pc' = [pc EXCEPT ![p] = "check"]
    /\ UNCHANGED <<cfg, counter, lim, ctxDone, uri, dq, server, envv, cancelAt>>

(* ---- DoQuery: the loop body after doRequest returns, lines 143-155 ---- *)
\* what DoQuery does with the pair (r, er) doRequest returned, done being
\* ctx.Err() # nil: the next position, the aggregate, the loop variable and
\* the returned pair
\* variant: a success returns the aggregate of the earlier failures with it
Step_keepAggregate(p, r, er, done) ==
    IF er # Nil
    THEN LET e1 == Add(e[p], er) IN
         IF done
         THEN [pc |-> "returned", e |-> e1, try |-> try[p],
               ret |-> [res |-> Nil, errs |-> Ref(e1)]]
         ELSE Loop(p, try[p] + 1, effTries[p], e1)
    ELSE [pc |-> "returned", e |-> e[p], try |-> try[p],
          ret |-> [res |-> r, errs |-> Ref(e[p])]]

\* variant: the early return adds the error of the context to the aggregate
Step_addCtxErr(p, r, er, done) ==
    IF er # Nil
    THEN LET e1 == Add(e[p], er) IN
         IF done
         THEN LET e2 == Add(e1, ErrContext(p, TryNo(p))) IN
              [pc |-> "returned", e |-> e2, try |-> try[p],
               ret |-> [res |-> Nil, errs |-> Ref(e2)]]
         ELSE Loop(p, try[p] + 1, effTries[p], e1)
    ELSE [pc |-> "returned", e |-> e[p], try |-> try[p], ret |-> [res |-> r, errs |-> Nil]]

\* variant: after a failed try with the context done, the next try is still made
Step_retryOnce(p, r, er, done) ==
    IF er # Nil
    THEN LET e1 == Add(e[p], er) IN
         IF done /\ try[p] >= 1
         THEN [pc |-> "returned", e |-> e1, try |-> try[p],
               ret |-> [res |-> Nil, errs |-> Ref(e1)]]
         ELSE Loop(p, try[p] + 1, effTries[p], e1)
    ELSE [pc |-> "returned", e |-> e[p], try |-> try[p], ret |-> [res |-> r, errs |-> Nil]]

\* variant: the context is not examined after a failed try
Step_ignoreCtx(p, r, er, done) ==
    IF er # Nil
    THEN Loop(p, try[p] + 1, effTries[p], Add(e[p], er))
    ELSE [pc |-> "returned", e |-> e[p], try |-> try[p], ret |-> [res |-> r, errs |-> Nil]]

Step(p, r, er, done) ==
    IF er # Nil
    THEN LET e1 == Add(e[p], er) IN
         IF done
         THEN [pc |-> "returned", e |-> e1, try |-> try[p],
               ret |-> [res |-> Nil, errs |-> Ref(e1)]]
         ELSE Loop(p, try[p] + 1, effTries[p], e1)
    ELSE [pc |-> "returned", e |-> e[p], try |-> try[p], ret |-> [res |-> r, errs |-> Nil]]

check(p) ==
    /\ pc[p] = "check"
    /\ LET st == Step(p, res[p], err[p], ctxDone[p]) IN
        /\ pc' = [pc EXCEPT ![p] = st.pc]
        /\ e' = [e EXCEPT ![p] = st.e]
        /\ try' = [try EXCEPT ![p] = st.try]
        /\ ret' = [ret EXCEPT ![p] = st.ret]
    /\ server' = [server EXCEPT ![p] = NoServer]
    /\ err' = [err EXCEPT ![p] = Nil]
    /\ res' = [res EXCEPT ![p] = Nil]
    /\ UNCHANGED <<cfg, counter, lim, ctxDone, uri, effTries, resp, picks, envv, cancelAt>>

(* ---- the caller cancels the context of a call, or its deadline passes ---- *)
\* where a call is: not begun, at the loop head between tries, in a try whose
\* round trip has not ended, or in a try whose round trip has ended (or which
\* failed before making one)
Phase(l) ==
    CASE l = "idle" -> "before"
      [] l = "doRequest" -> "head"
      [] l \in {"Enter", "Do"} -> "admission"
      [] OTHER -> "after"
\* the try in progress has failed already: an error is set, or the status of
\* the response is not 200
TryFailed(p) ==
    \/ err[p] # Nil
    \/ resp[p] # Nil /\ resp[p].StatusCode # StatusOK

Cancel(p) ==
    /\ p \in callers
    /\ pc[p] # "returned"
    /\ ~ctxDone[p]
    /\ ctxDone' = [ctxDone EXCEPT ![p] = TRUE]
    /\ cancelAt' = [cancelAt EXCEPT ![p] =
                      [phase |-> Phase(pc[p]), tries |-> Len(picks[p]), failed |-> TryFailed(p)]]
    /\ UNCHANGED <<cfg, counter, lim, pc, uri, dq, dr, picks, envv>>

Next ==
    \E p \in Calls :
        \/ DoQuery(p)
        \/ doRequest(p)
        \/ Enter(p)
        \/ Do(p)
        \/ Leave(p)
        \/ classify(p)
        \/ check(p)
        \/ Cancel(p)

Spec == Init /\ [][Next]_vars

(***************************************************************************)
(* Properties                                                              *)
(***************************************************************************)
Returned(p) == pc[p] = "returned"
Succeeded(p) == Returned(p) /\ ret[p].res # Nil
Failed(p) == Returned(p) /\ ret[p].res = Nil
\* a failed return is either the early return of line 146 (the context was
\* done when the last try's error was examined) or the return of line 155
Aborted(p) == Failed(p) /\ ctxDone[p]
Exhausted(p) == Failed(p) /\ ~ctxDone[p]
Errs(p) == ret[p].errs.errors
InFlight == {p \in Calls : pc[p] = "Do"}
Quiescent == \A p \in Calls : pc[p] \in {"idle", "returned"}
Max(a, b) == IF a >= b THEN a ELSE b
CancelKinds == {"LimiterTimeout", "ContextDone"}

\* C1: with a bounded limiter of capacity C, at most C tries are past Enter
\* with their round trip not yet ended, and at most C slots of the group are
\* held.
C1_AtMostCapacityAdmitted ==
    limiter.bounded =>
        /\ Cardinality(InFlight) <= limiter.cap
        /\ held[groupName] <= limiter.cap

\* a try is in its round trip with every slot taken while another call waits
\* in Enter
C1_Witness ==
    /\ limiter.bounded
    /\ held[groupName] = limiter.cap
    /\ \E p, q \in Calls : p # q /\ pc[p] = "Do" /\ pc[q] = "Enter" /\ ~ctxDone[q]

\* C2: every Enter on the group is followed by one Leave on the same key, so
\* with no call in flight no slot of the group is held and no key was
\* released without having been acquired.
C2_LeaveMatchesEnter ==
    Quiescent => held[groupName] = 0 /\ unmatched = {}

\* C3: a returned call has exactly one of its two results: a response and a
\* nil aggregate, or no response and an aggregate of at least one entry.
C3_ExactlyOneResult ==
    \A p \in Calls : Returned(p) =>
        \/ ret[p].res # Nil /\ ret[p].errs = Nil
        \/ ret[p].res = Nil /\ ret[p].errs # Nil /\ Len(Errs(p)) >= 1

\* one call returned a response after a failed try, another returned an
\* aggregate
C3_Witness ==
    \E p, q \in Calls : Succeeded(p) /\ Len(e[p]) >= 1 /\ Failed(q)

\* C4: a call whose tries all fail and whose context is never done makes
\* exactly max(maxTries, number of replicas) tries.
C4_TriesOnSustainedFailure ==
    \A p \in Calls : Exhausted(p) => Len(picks[p]) = Max(maxTries, Len(servers))

\* maxTries 1 with 3 replicas: 3 tries
C4_Witness ==
    \E p \in Calls :
        Exhausted(p) /\ maxTries = 1 /\ Len(servers) = 3 /\ Len(picks[p]) = 3

\* C5: the aggregate of a call that used up its tries is the error of each
\* of its tries, in try order, then the sentinel; its length is the number
\* of tries plus one.  Where backends only answer 200 or 404, the entries of
\* the tries are all NotFound.
OnlyNotFoundFails(p) ==
    /\ world.statuses \subseteq {StatusOK, StatusNotFound}
    /\ ~world.transport /\ ~world.read
    /\ uri[p] = GoodURI

C5_ExhaustedAggregate ==
    \A p \in Calls : Exhausted(p) =>
        LET a == Errs(p)
            k == Max(maxTries, Len(servers))
        IN /\ Len(a) = k + 1
           /\ a[k + 1] = ErrMaxTriesExceeded(p)
           /\ \A i \in 1..k :
                /\ a[i].call = p /\ a[i].try = i
                /\ a[i].kind # "MaxTriesExceeded"
                /\ OnlyNotFoundFails(p) => a[i] = ErrNotFound(p, i)

\* 3 replicas answering 404, maxTries 1: 3 NotFound and the sentinel, while
\* another call has made tries of its own
C5_Witness ==
    \E p, q \in Calls :
        /\ p # q /\ Len(picks[q]) >= 1
        /\ Exhausted(p) /\ maxTries = 1 /\ Len(servers) = 3
        /\ Len(Errs(p)) = 4
        /\ \A i \in 1..3 : Errs(p)[i].kind = "NotFound"

\* C6: a call that returns a response returns the one of its last try: the
\* replica picked in that try and its body, with a nil aggregate; the tries
\* before it failed and no try follows it.
C6_FirstSuccessReturns ==
    \A p \in Calls : Succeeded(p) =>
        LET k == Len(picks[p]) IN
        /\ k >= 1 /\ k = try[p] + 1
        /\ k <= Max(maxTries, Len(servers))
        /\ ret[p].res.Server = picks[p][k].srv
        /\ ret[p].res.Response = <<"body", picks[p][k].srv>>
        /\ ret[p].errs = Nil
        /\ Len(e[p]) = k - 1
        /\ \A i \in 1..(k - 1) : e[p][i].try = i

\* 3 replicas, two transport failures, then the third try succeeds
C6_Witness ==
    \E p \in Calls :
        /\ Succeeded(p) /\ Len(servers) = 3 /\ Len(picks[p]) = 3
        /\ e[p][1].kind = "Transport" /\ e[p][2].kind = "Transport"
        /\ ret[p].res.Server = picks[p][3].srv

\* C7: a call that finds its context done after a failed try returns at
\* once: no response, the aggregate as accumulated (one entry per try made),
\* no sentinel, and no try beyond the failed one.
C7_AbortOnCancelledContext ==
    \A p \in Calls : Aborted(p) =>
        LET a == Errs(p)
            k == Len(picks[p])
        IN /\ ret[p].res = Nil
           /\ k = try[p] + 1 /\ k <= effTries[p]
           /\ a = e[p] /\ Len(a) = k
           /\ \A i \in 1..k : a[i].try = i /\ a[i].kind # "MaxTriesExceeded"

\* an abort in the first try of three
C7_Witness ==
    \E p \in Calls : Aborted(p) /\ Len(picks[p]) = 1 /\ effTries[p] = 3

HasCancellation(a) == \E i \in 1..Len(a) : a[i].kind \in CancelKinds

CancelledAfterFirstTry(p) ==
    /\ cancelAt[p] # Nil
    /\ cancelAt[p].tries = 1
    /\ \/ cancelAt[p].phase = "after" /\ cancelAt[p].failed
       \/ cancelAt[p].phase = "head"

Range(f) == {f[i] : i \in 1..Len(f)}
Picked(p) == {picks[p][i].srv : i \in 1..Len(picks[p])}
\* the replicas a call whose context never ended made a round trip to: with
\* a URL that parses each picked replica, else none
Contacted(p) == IF uri[p] = GoodURI THEN Picked(p) ELSE {}
\* no other call took a counter value between the picks of p
Undisturbed(p) ==
    \A i \in 2..Len(picks[p]) : picks[p][i].counter = picks[p][i - 1].counter + 1

\* C10 as stated (for a URL that parses): a call whose tries all fail and
\* whose context never ends contacts every replica, whatever other calls do.
C10_EveryReplicaContacted ==
    \A p \in Calls :
        (Exhausted(p) /\ uri[p] = GoodURI) => Contacted(p) = Range(servers)

\* C10 as amended: such a call picks every replica in some try, and
\* contacts it if the URL parses, provided no other call picks a replica
\* between its picks.
C10_EveryReplicaWhenUndisturbed ==
    \A p \in Calls :
        (Exhausted(p) /\ (Len(servers) >= 2 => Undisturbed(p))) =>
            /\ Picked(p) = Range(servers)
            /\ uri[p] = GoodURI => Contacted(p) = Range(servers)

\* maxTries below the 3 replicas, all three contacted, while another call
\* made its picks before or after
C10_Witness ==
    \E p, q \in Calls :
        /\ p # q /\ Len(picks[q]) >= 1
        /\ Exhausted(p) /\ Undisturbed(p) /\ uri[p] = GoodURI
        /\ Len(servers) = 3 /\ maxTries < 3
        /\ Contacted(p) = Range(servers)

(* ---- pickServer across all calls ---- *)
\* every try made so far, as (call, try number)
AllTries == UNION {{<<p, i>> : i \in 1..Len(picks[p])} : p \in Calls}
\* the try whose pickServer call saw the counter value N
TryOf(N) == CHOOSE t \in AllTries : picks[t[1]][t[2]].counter = N
PickOf(N) == picks[TryOf(N)[1]][TryOf(N)[2]]
\* the position of a replica in the list
IndexOf(s) == CHOOSE i \in 1..Len(servers) : servers[i] = s
\* the records of all tries made so far
AllPicks == UNION {{picks[p][i] : i \in 1..Len(picks[p])} : p \in Calls}

\* C11: with two or more replicas, the N-th pickServer call in the order of
\* the counter increments, whichever call made it, returns the replica at
\* index N mod count of the list (the list is indexed from 0 in the code,
\* from 1 here).
C11_NthPickIsNModCount ==
    Len(servers) >= 2 =>
        /\ \A t \in AllTries : picks[t[1]][t[2]].counter \in 1..counter
        /\ \A N \in 1..counter :
              /\ \E t \in AllTries : picks[t[1]][t[2]].counter = N
              /\ \A t \in AllTries : picks[t[1]][t[2]].counter = N =>
                    picks[t[1]][t[2]].srv = servers[(N % Len(servers)) + 1]

\* three replicas, both calls picking, and the counter past the point where
\* the index wraps to the head of the list
C11_Witness ==
    /\ Len(servers) = 3 /\ counter >= 4
    /\ \A p \in Calls : Len(picks[p]) >= 1
    /\ PickOf(3).srv = servers[1] /\ PickOf(4).srv = servers[2]

\* C12: with n >= 2 replicas, among any M consecutive pickServer calls each
\* replica is returned floor(M/n) or ceil(M/n) times, and each call returns
\* the cyclic successor of the replica the call before it returned.
C12_EvenCyclic ==
    Len(servers) >= 2 =>
        LET n == Len(servers)
            all == AllPicks
        IN
        \A x \in all : \A y \in all :
           /\ x.counter <= y.counter =>
                LET M == y.counter - x.counter + 1 IN
                \A j \in 1..n :
                   Cardinality({z \in all : /\ x.counter <= z.counter
                                            /\ z.counter <= y.counter
                                            /\ z.srv = servers[j]})
                      \in {M \div n, (M + n - 1) \div n}
           /\ y.counter = x.counter + 1 =>
                y.srv = servers[(IndexOf(x.srv) % n) + 1]

\* six picks over three replicas, those of one call not consecutive
C12_Witness ==
    /\ Len(servers) = 3 /\ counter = 6
    /\ \E p \in Calls : Len(picks[p]) = 3 /\ ~Undisturbed(p)

C18_DistinctCounterValues ==
    Len(servers) >= 2 =>
        /\ counter = Cardinality(AllTries)
        /\ \A t \in AllTries : \A u \in AllTries :
              t # u => picks[t[1]][t[2]].counter # picks[u[1]][u[2]].counter

\* four or more picks, one call picking between two picks of the other
C18_Witness ==
    /\ Len(servers) >= 2 /\ counter >= 4
    /\ \E p, q \in Calls :
          /\ p # q /\ Len(picks[p]) >= 2 /\ Len(picks[q]) >= 1
          /\ picks[p][1].counter < picks[q][1].counter
          /\ picks[q][1].counter < picks[p][2].counter

(* ---- the steps of a try ---- *)
Admitted == {t \in AllTries : picks[t[1]][t[2]].enter = "admitted"}
\* the tries whose Leave was on the key Enter took the slot of
LeftGroup == {t \in AllTries : /\ picks[t[1]][t[2]].left
                               /\ picks[t[1]][t[2]].srv = groupName}

\* C15: a try whose Enter returned an error returns that error at once: it
\* makes no round trip and calls no Leave, no slot is taken for it, and the
\* limiter's error is what the try adds to the aggregate.
C15_EnterFailureEndsTry ==
    /\ \A t \in AllTries :
          LET p == t[1]
              i == t[2]
          IN picks[p][i].enter = "failed" =>
                /\ picks[p][i].reply = Nil /\ ~picks[p][i].left
                /\ \/ i <= Len(e[p]) /\ e[p][i] = ErrTimeout(p, i)
                   \/ /\ i = Len(e[p]) + 1 /\ pc[p] = "check"
                      /\ err[p] = ErrTimeout(p, i)
                      /\ resp[p] = Nil /\ res[p] = Nil
    /\ limiter.bounded =>
          held[groupName] = Cardinality(Admitted) - Cardinality(LeftGroup)

\* a second try refused by the limiter after a first try that made its
\* round trip, and a call refused in its first try while every slot is held
C15_Witness ==
    /\ \E p \in Calls :
          /\ Len(picks[p]) = 2 /\ picks[p][1].reply # Nil
          /\ picks[p][2].enter = "failed"
          /\ Aborted(p) /\ Errs(p)[2] = ErrTimeout(p, 2)
    /\ \E q \in Calls :
          /\ Len(picks[q]) = 1 /\ picks[q][1].enter = "failed"
          /\ held[groupName] = limiter.cap

(* ---- the outcome of a try ---- *)
\* the pair doRequest returned for try i of call p, read where it is kept:
\* the aggregate for a try that failed, the locals of DoQuery while line 143
\* has not examined it, the result of the call for the try that succeeded
TryErr(p, i) ==
    IF i <= Len(e[p]) THEN e[p][i]
    ELSE IF pc[p] = "check" THEN err[p] ELSE Nil
TryRes(p, i) ==
    IF i <= Len(e[p]) THEN Nil
    ELSE IF pc[p] = "check" THEN res[p]
    ELSE IF pc[p] = "returned" THEN ret[p].res ELSE Nil
\* the tries whose round trip ended and whose doRequest has returned
Classified ==
    {t \in AllTries : /\ picks[t[1]][t[2]].reply # Nil
                      /\ \/ t[2] <= Len(e[t[1]])
                         \/ pc[t[1]] \in {"check", "returned"}}
IsResponse(p, i) ==
    /\ TryErr(p, i) = Nil
    /\ TryRes(p, i) = [Server |-> picks[p][i].srv,
                       Response |-> <<"body", picks[p][i].srv>>]
IsNotFound(p, i) == TryRes(p, i) = Nil /\ TryErr(p, i) = ErrNotFound(p, i)
IsFetchFailed(p, i) ==
    /\ TryRes(p, i) = Nil
    /\ TryErr(p, i) = ErrFailedToFetch(groupName, picks[p][i].reply.status, p, i)
IsTransportFailure(p, i) ==
    /\ TryRes(p, i) = Nil
    /\ picks[p][i].reply.err # Nil /\ TryErr(p, i) = picks[p][i].reply.err
IsReadFailure(p, i) == TryRes(p, i) = Nil /\ TryErr(p, i) = ErrReadBody(p, i)
\* how many of the conditions of a sequence hold
HowMany(f) == Cardinality({j \in 1..Len(f) : f[j]})
\* the outcome the status, or the error of the round trip, calls for
ByStatus(p, i) ==
    LET r == picks[p][i].reply IN
    /\ r.err # Nil => IsTransportFailure(p, i)
    /\ (r.err = Nil /\ r.status = StatusNotFound) => IsNotFound(p, i)
    /\ (r.err = Nil /\ r.status \notin {StatusOK, StatusNotFound}) => IsFetchFailed(p, i)
    /\ (r.err = Nil /\ r.status = StatusOK /\ picks[p][i].read = "ok") => IsResponse(p, i)
\* a try that did not end with a response
NonSuccess(k) == ~(k.reply # Nil /\ k.reply.err = Nil /\ k.reply.status = StatusOK /\ k.read = "ok")
\* each try of a returned call that did not succeed is one entry of the
\* aggregate, in the order of the tries
FailuresCounted ==
    \A p \in Calls : Returned(p) =>
        LET failed == {i \in 1..Len(picks[p]) : NonSuccess(picks[p][i])}
        IN /\ \A i \in failed : i <= Len(e[p]) /\ e[p][i].try = i
           /\ Cardinality({j \in 1..Len(e[p]) : e[p][j].kind # "MaxTriesExceeded"})
                 = Cardinality(failed)

\* C17 as stated: a try whose round trip ended has exactly one of four
\* outcomes, fixed by the status alone: a response (200), NotFound (404),
\* FetchFailed with the group name and the status (any other status), or the
\* transport's error unchanged; and each outcome but the first is one failed
\* try.
C17_FourOutcomes ==
    /\ \A t \in Classified :
          /\ ByStatus(t[1], t[2])
          /\ HowMany(<<IsResponse(t[1], t[2]), IsNotFound(t[1], t[2]),
                       IsFetchFailed(t[1], t[2]), IsTransportFailure(t[1], t[2])>>) = 1
    /\ FailuresCounted

\* C17 as amended: there is a fifth outcome, where the status does not
\* decide: a 200 whose body cannot be read is a failed try with the error of
\* the read.
C17_FiveOutcomes ==
    /\ \A t \in Classified :
          LET p == t[1]
              i == t[2]
          IN /\ ByStatus(p, i)
             /\ (picks[p][i].reply.err = Nil /\ picks[p][i].reply.status = StatusOK
                   /\ picks[p][i].read = "failed") => IsReadFailure(p, i)
             /\ HowMany(<<IsResponse(p, i), IsNotFound(p, i), IsFetchFailed(p, i),
                          IsTransportFailure(p, i), IsReadFailure(p, i)>>) = 1
    /\ FailuresCounted

\* a call of three tries: a 503, a transport failure and a 200 whose body
\* cannot be read
C17_Witness ==
    \E p \in Calls :
        /\ Exhausted(p) /\ Len(picks[p]) = 3
        /\ \A i \in 1..3 : picks[p][i].reply # Nil
        /\ picks[p][1].reply.status = 503 /\ IsFetchFailed(p, 1)
        /\ picks[p][2].reply.err # Nil /\ IsTransportFailure(p, 2)
        /\ picks[p][3].read = "failed" /\ IsReadFailure(p, 3)

\* the slots of the group taken by Enter and not yet given back by the Leave
\* of the same try
Unreleased == {t \in Admitted : ~picks[t[1]][t[2]].left}

\* C16: the Leave of a try that passed Enter comes right after the round
\* trip, before the status is looked at and the body read, and it gives the
\* slot back: the slots held on the group are those of the admitted tries
\* whose round trip has not ended or whose Leave is about to be called, and
\* none is held for a try that is classifying or reading.
C16_SlotReleasedAfterRoundTrip ==
    /\ \A t \in AllTries :
          (/\ picks[t[1]][t[2]].enter = "admitted"
           /\ \/ t \in Classified
              \/ t[2] = Len(picks[t[1]]) /\ pc[t[1]] = "classify")
             => picks[t[1]][t[2]].left
    /\ limiter.bounded => held[groupName] = Cardinality(Unreleased)

\* C19: with a bounded limiter and no context ever cancelled, a try waiting
\* in Enter is admitted in the end: either a slot of the group is free, or
\* some admitted try has yet to end its round trip and call Leave, which
\* frees one.
C19_WaitingTryAdmitted ==
    (limiter.bounded /\ \A q \in Calls : ~ctxDone[q]) =>
        \A p \in Calls : pc[p] = "Enter" =>
            \/ EnterAdmits(groupName)
            \/ \E q \in Calls : pc[q] \in {"Do", "Leave"}

(* ---- progress ---- *)
\* the steps of a call once DoQuery was called; the round trip is only sure
\* to end once the context is done (line 99 passes the context to client.Do)
Proceed(p) ==
    \/ doRequest(p) \/ Enter(p) \/ Leave(p) \/ classify(p) \/ check(p)
    \/ ctxDone[p] /\ Do(p)

\* every call that was begun goes on while it has a step to take; checked
\* for groups of up to FairMaxServers replicas
FairInit == Init /\ Len(servers) <= FairMaxServers
FairSpec == FairInit /\ [][Next]_vars /\ \A p \in Calls : WF_vars(Proceed(p))

\* C14: a call whose context is done returns in the end, wherever it was:
\* waiting in Enter, in its round trip or between tries; and once a call has
\* returned its result stands and nothing more is done for it: no pick, no
\* Enter, no round trip, no Leave.
C14_CancelledCallReturns ==
    /\ \A p \in Calls : (ctxDone[p] /\ pc[p] # "idle") ~> Returned(p)
    /\ [][\A p \in Calls : Returned(p) =>
              /\ pc'[p] = "returned" /\ ret'[p] = ret[p]
              /\ picks'[p] = picks[p] /\ e'[p] = e[p]]_vars

\* a call that returned after its context ended while it waited in Enter
\* with every slot taken, while the other call went on to make a try
C14_Witness ==
    \E p, q \in Calls :
        /\ p # q /\ Aborted(p)
        /\ cancelAt[p].phase = "admission"
        /\ picks[p][Len(picks[p])].enter = "failed"
        /\ Len(picks[q]) >= 1 /\ pc[q] \in {"Do", "Leave", "classify"}

\* the context of the call was done before its first try began: before
\* DoQuery was called, or before the first pickServer
PreCancelled(p) ==
    /\ cancelAt[p] # Nil
    /\ cancelAt[p].tries = 0
    /\ cancelAt[p].phase \in {"before", "head"}
\* such a call makes one try and no more, the try picks a replica (and
\* advances the counter when there are two or more), and the call returns
\* no response and the error of that try alone
OneTryOnly(p) ==
    /\ pc[p] # "idle" => Len(picks[p]) <= 1
    /\ Returned(p) =>
          /\ Len(picks[p]) = 1
          /\ Len(servers) >= 2 => picks[p][1].counter >= 1
          /\ ret[p].res = Nil
          /\ Len(Errs(p)) = 1
          /\ Errs(p)[1].kind # "MaxTriesExceeded" /\ Errs(p)[1].try = 1

\* C20 as stated: a call whose context was done before its first try makes
\* exactly one try, in which pickServer and Enter are called, and returns no
\* response and one entry, not the sentinel.
C20_OneTryWithEnter ==
    \A p \in Calls : PreCancelled(p) =>
        /\ OneTryOnly(p)
        /\ Returned(p) => picks[p][1].enter # "none"

\* C20 as amended: Enter is called in that try when the URL parses; when it
\* does not, the try ends at line 74 with the error of url.Parse, before
\* Enter.
C20_OneTry ==
    \A p \in Calls : PreCancelled(p) =>
        /\ OneTryOnly(p)
        /\ Returned(p) =>
              IF uri[p] = GoodURI
              THEN /\ picks[p][1].enter # "none"
                   /\ Errs(p)[1].kind \in CancelKinds
              ELSE /\ picks[p][1].enter = "none"
                   /\ Errs(p)[1].kind = "URLParse"

\* with two or more replicas and up to three tries allowed: one call
\* cancelled before it began whose Enter admitted it and whose round trip
\* returned the context's error, another whose Enter failed
C20_Witness ==
    \E p, q \in Calls :
        /\ Len(servers) >= 2
        /\ Returned(p) /\ PreCancelled(p) /\ cancelAt[p].phase = "before"
        /\ picks[p][1].counter >= 1 /\ picks[p][1].enter = "admitted"
        /\ Errs(p) = <<ErrContext(p, 1)>>
        /\ Returned(q) /\ PreCancelled(q)
        /\ picks[q][1].enter = "failed" /\ Errs(q) = <<ErrTimeout(q, 1)>>
====
